---- MODULE Spec2Model ----
(***************************************************************************)
(* Tabu search for graph coloring: a state-machine model of tabucol()     *)
(* in src/tabucol.py.  One call of tabucol is one behaviour; the random   *)
(* draws (randrange) are the nondeterministic inputs of the actions.      *)
(***************************************************************************)
EXTENDS Integers, Sequences, FiniteSets, TLC

\* ---------------------------------------------------------------- bounds
MaxNodes == 3
MaxColors == 3
MaxTabuSize == 2
MaxReps == 2
MaxIterations == 3

\* ------------------------------------------------------- Python values
\* a local name that has not been assigned yet (reading it raises
\* UnboundLocalError)
Unbound == -1
\* Python's None
None == << >>

VARIABLES
    graph,              \* adjacency matrix, graph[i][j] > 0 iff adjacent
    number_of_colors,   \* k
    tabu_size,
    reps,
    max_iterations,
    solution,           \* node -> color
    tabu,               \* deque of <<node, color>>
    aspiration_level,   \* dict: conflict count -> bound
    iterations,
    conflict_count,     \* local of the while loop, Unbound before it
    move_candidates,
    new_solution,
    node,
    new_color,
    new_conflicts,
    r,                  \* attempts sampled in the current iteration
    rule,               \* branch taken by the last attempt
    pc,
    outcome,
    result,             \* the returned value
    stored,             \* history: values ever stored under each key
    applied_min         \* history: lowest conflict count that an applied
                        \* transition from each conflict level produced

config == <<graph, number_of_colors, tabu_size, reps, max_iterations>>
locals == <<conflict_count, move_candidates, new_solution, node, new_color,
            new_conflicts, r, rule>>
vars == <<graph, number_of_colors, tabu_size, reps, max_iterations, solution,
          tabu, aspiration_level, iterations, conflict_count,
          move_candidates, new_solution, node, new_color, new_conflicts, r,
          rule, pc, outcome, result, stored, applied_min>>

\* ---------------------------------------------------------------- graphs
\* adjacency matrix of the undirected graph on nodes 0..n-1 with edges E
AdjMatrix(n, E) ==
    [i \in 0..(n-1) |-> [j \in 0..(n-1) |->
        IF <<i, j>> \in E \/ <<j, i>> \in E THEN 1 ELSE 0]]

Empty(n) == AdjMatrix(n, {})
Complete(n) == AdjMatrix(n, {<<i, j>> \in (0..(n-1)) \X (0..(n-1)) : i < j})
Star(n) == AdjMatrix(n, {<<0, j>> : j \in 1..(n-1)})
Cycle(n) ==
    AdjMatrix(n, IF n < 3 THEN {} ELSE {<<i, (i+1) % n>> : i \in 0..(n-1)})

Graphs == UNION {{Empty(n), Complete(n), Star(n), Cycle(n)} : n \in 0..MaxNodes}

\* the 5-cycle 0-1-2-3-4-0
Cycle5 == AdjMatrix(5, {<<0, 1>>, <<1, 2>>, <<2, 3>>, <<3, 4>>, <<4, 0>>})

\* the complete graph on 4 nodes
K4 == AdjMatrix(4, {<<0, 1>>, <<0, 2>>, <<0, 3>>, <<1, 2>>, <<1, 3>>, <<2, 3>>})

\* the star with center 0 and leaves 1..4
Star5 == AdjMatrix(5, {<<0, 1>>, <<0, 2>>, <<0, 3>>, <<0, 4>>})

\* further calls <<graph, number_of_colors>>: the odd cycle with 2 colors,
\* and graphs with a node of degree 3 or 4 (recoloring it can add one or
\* two conflicts, so a conflict level can be reached again)
Scenarios == {<<Cycle5, 2>>, <<K4, 2>>, <<Star5, 3>>}

\* len(graph)
NumNodes(g) == Cardinality(DOMAIN g)
Nodes(g) == 0..(NumNodes(g) - 1)
\* colors = list(range(number_of_colors))
Colors(k) == 0..(k-1)

\* ------------------------------------------------------ conflict counting
ConflictPairs_Short(g, sol) ==
    {p \in Nodes(g) \X Nodes(g) :
        /\ p[2] > p[1]
        /\ p[2] < NumNodes(g) - 1
        /\ g[p[1]][p[2]] > 0
        /\ sol[p[1]] = sol[p[2]]}

\* the pairs (i, j), i < j, that are adjacent and have the same color
ConflictPairs(g, sol) ==
    {p \in Nodes(g) \X Nodes(g) :
        /\ p[2] > p[1]
        /\ g[p[1]][p[2]] > 0
        /\ sol[p[1]] = sol[p[2]]}

ConflictCount(g, sol) == Cardinality(ConflictPairs(g, sol))

MoveCandidates_First(g, sol) ==
    {v \in Nodes(g) : \E p \in ConflictPairs(g, sol) : v = p[1]}

MoveCandidates(g, sol) ==
    {v \in Nodes(g) : \E p \in ConflictPairs(g, sol) : v = p[1] \/ v = p[2]}

\* ------------------------------------------------------------- tabu deque
InTabu(t, m) == \E x \in 1..Len(t) : t[x] = m

\* deque.remove: deletes the first occurrence
Remove(t, m) ==
    LET x == CHOOSE y \in 1..Len(t) :
                 t[y] = m /\ \A w \in 1..(y-1) : t[w] # m
    IN  SubSeq(t, 1, x-1) \o SubSeq(t, x+1, Len(t))

Push_PopRight(t, m, size) ==
    LET a == Append(t, m) IN IF Len(a) > size THEN SubSeq(a, 1, Len(a) - 1) ELSE a

Push_NoEvict(t, m, size) ==
    LET a == Append(t, m) IN IF Len(a) > size + 1 THEN Tail(a) ELSE a

\* tabu.append(m), then popleft() when the queue is over its size
Push(t, m, size) ==
    LET a == Append(t, m) IN IF Len(a) > size THEN Tail(a) ELSE a

TabuEntry_New(nd, sol, nsol) == <<nd, nsol[nd]>>

\* the entry that becomes tabu: (node, solution[node])
TabuEntry(nd, sol, nsol) == <<nd, sol[nd]>>

\* ------------------------------------------------------------- sampling
NewColor_NoSwap(cur, d, k) == d

\* colors[randrange(0, len(colors) - 1)], the last color when the draw is
\* the current color
NewColor(cur, d, k) == IF cur = d THEN k - 1 ELSE d

Improves_OrEqual(nconf, z) == nconf <= z

\* new_conflicts < conflict_count
Improves(nconf, z) == nconf < z

\* ------------------------------------------------------ aspiration levels
\* aspiration_level.setdefault(z, z - 1): the dict after the call
SetDefault(asp, z) == IF z \in DOMAIN asp THEN asp ELSE (z :> (z - 1)) @@ asp

AspirationMet_Always(nconf, bound) == TRUE

\* new_conflicts <= A(f(s))
AspirationMet(nconf, bound) == nconf <= bound

NewBound_Same(nconf) == nconf

\* A(f(s)) = f(s') - 1
NewBound(nconf) == nconf - 1

\* history of the lowest conflict count reached from level z
RecordMin(h, z, c) ==
    IF z \in DOMAIN h
    THEN [h EXCEPT ![z] = IF c < @ THEN c ELSE @]
    ELSE (z :> c) @@ h

\* history of the values stored under key z
Record(h, z, v) ==
    IF z \in DOMAIN h THEN [h EXCEPT ![z] = Append(@, v)] ELSE (z :> <<v>>) @@ h

\* ------------------------------------------------------------ loop tests
LoopCondition_Late == iterations <= max_iterations

\* while iterations < max_iterations
LoopCondition == iterations < max_iterations

Found_Never(cc) == cc < 0

\* if conflict_count == 0: break
Found(cc) == cc = 0

\* ------------------------------------------------------------------ Init
\* the state at the entry of tabucol: nothing assigned, empty tabu queue
\* and aspiration levels
Entry ==
    /\ solution = None
    /\ tabu = << >>
    /\ aspiration_level = << >>
    /\ iterations = 0
    /\ conflict_count = Unbound
    /\ move_candidates = {}
    /\ new_solution = None
    /\ node = Unbound
    /\ new_color = Unbound
    /\ new_conflicts = Unbound
    /\ r = 0
    /\ rule = "none"
    /\ pc = "start"
    /\ outcome = "running"
    /\ result = None
    /\ stored = << >>
    /\ applied_min = << >>

Init ==
    /\ \/ graph \in Graphs /\ number_of_colors \in 0..MaxColors
       \/ \E c \in Scenarios : graph = c[1] /\ number_of_colors = c[2]
    /\ tabu_size \in 0..MaxTabuSize
    /\ reps \in 0..MaxReps
    /\ max_iterations \in 0..MaxIterations
    /\ Entry

\* an exception leaves tabucol
Raise(e) ==
    /\ pc' = "done"
    /\ outcome' = e
    /\ result' = None

\* lines 8-21: the random initial solution
RandomSolution ==
    /\ pc = "start"
    /\ IF NumNodes(graph) > 0 /\ number_of_colors < 1
       THEN \* randrange(0, 0)
            /\ Raise("ValueError")
            /\ UNCHANGED solution
       ELSE /\ solution' \in [Nodes(graph) -> Colors(number_of_colors)]
            /\ pc' = "loop"
            /\ UNCHANGED <<outcome, result>>
    /\ UNCHANGED <<config, locals, tabu, aspiration_level, iterations, stored,
                   applied_min>>

\* lines 23-41: the loop test holds; count the conflicts
Evaluate ==
    /\ pc = "loop"
    /\ LoopCondition
    /\ conflict_count' = ConflictCount(graph, solution)
    /\ move_candidates' = MoveCandidates(graph, solution)
    /\ IF Found(conflict_count')
       THEN /\ pc' = "return"
            /\ UNCHANGED <<new_solution, r, rule>>
       ELSE /\ new_solution' = None
            /\ r' = 0
            /\ rule' = "none"
            /\ pc' = IF reps > 0 THEN "sample" ELSE "push"
    /\ UNCHANGED <<config, solution, tabu, aspiration_level, iterations,
                   node, new_color, new_conflicts, outcome, result, stored,
                   applied_min>>

\* line 23: the loop test fails
LoopExit ==
    /\ pc = "loop"
    /\ ~LoopCondition
    /\ pc' = "return"
    /\ UNCHANGED <<config, locals, solution, tabu, aspiration_level,
                   iterations, outcome, result, stored, applied_min>>

Continue_Break == pc' = "push"

\* after an attempt that did not break: next attempt or end of the for loop
Continue == pc' = IF r + 1 < reps THEN "sample" ELSE "push"

\* lines 42-78: one attempt of the for loop
Attempt ==
    /\ pc = "sample"
    /\ r < reps
    /\ IF move_candidates = {} \/ number_of_colors - 1 < 1
       THEN \* randrange(0, 0)
            /\ Raise("ValueError")
            /\ UNCHANGED <<new_solution, node, new_color, new_conflicts, r,
                           rule, tabu, aspiration_level, stored>>
       ELSE \E nd \in move_candidates, d \in 0..(number_of_colors - 2) :
            LET nc == NewColor(solution[nd], d, number_of_colors)
                ns == [solution EXCEPT ![nd] = nc]
                nconf == ConflictCount(graph, ns)
                z == conflict_count
                asp == SetDefault(aspiration_level, z)
                hist == IF z \in DOMAIN aspiration_level
                        THEN stored ELSE Record(stored, z, z - 1)
            IN  /\ node' = nd
                /\ new_color' = nc
                /\ new_solution' = ns
                /\ new_conflicts' = nconf
                /\ r' = r + 1
                /\ UNCHANGED <<outcome, result>>
                /\ IF Improves(nconf, z)
                   THEN IF AspirationMet(nconf, asp[z])
                        THEN /\ aspiration_level' = [asp EXCEPT ![z] = NewBound(nconf)]
                             /\ stored' = Record(hist, z, NewBound(nconf))
                             /\ pc' = "push"
                             /\ IF InTabu(tabu, <<nd, nc>>)
                                THEN /\ tabu' = Remove(tabu, <<nd, nc>>)
                                     /\ rule' = "1a_tabu"
                                ELSE /\ tabu' = tabu
                                     /\ rule' = "1a"
                        ELSE /\ aspiration_level' = asp
                             /\ stored' = hist
                             /\ tabu' = tabu
                             /\ IF InTabu(tabu, <<nd, nc>>)
                                THEN /\ rule' = "1b"
                                     /\ Continue
                                ELSE /\ rule' = "1c"
                                     /\ pc' = "push"
                   ELSE /\ rule' = "2"
                        /\ Continue
                        /\ UNCHANGED <<tabu, aspiration_level, stored>>
    /\ UNCHANGED <<config, solution, iterations, conflict_count,
                   move_candidates, applied_min>>

\* lines 83-91: the replaced color becomes tabu, move to the new solution
PushTabu ==
    /\ pc = "push"
    /\ IF node = Unbound
       THEN /\ Raise("UnboundLocalError")
            /\ UNCHANGED <<tabu, solution, iterations, applied_min>>
       ELSE /\ tabu' = Push(tabu, TabuEntry(node, solution, new_solution),
                            tabu_size)
            /\ applied_min' = RecordMin(applied_min, conflict_count,
                                        new_conflicts)
            /\ solution' = new_solution
            /\ iterations' = iterations + 1
            /\ pc' = "loop"
            /\ UNCHANGED <<outcome, result>>
    /\ UNCHANGED <<config, locals, aspiration_level, stored>>

\* lines 97-104
Return ==
    /\ pc = "return"
    /\ pc' = "done"
    /\ IF conflict_count = Unbound
       THEN outcome' = "UnboundLocalError" /\ result' = None
       ELSE IF conflict_count # 0
            THEN outcome' = "Exhausted" /\ result' = None
            ELSE outcome' = "Converged" /\ result' = solution
    /\ UNCHANGED <<config, locals, solution, tabu, aspiration_level,
                   iterations, stored, applied_min>>

Next ==
    \/ RandomSolution
    \/ Evaluate
    \/ LoopExit
    \/ Attempt
    \/ PushTabu
    \/ Return

Spec == Init /\ [][Next]_vars

\* the calls on a graph that has no proper coloring with k >= 2 colors
UncolorableInit ==
    /\ Init
    /\ number_of_colors >= 2
    /\ \A s \in [Nodes(graph) -> Colors(number_of_colors)] :
           \E i, j \in Nodes(graph) : i < j /\ graph[i][j] > 0 /\ s[i] = s[j]

\* one longer call: the star, 3 colors, one attempt per iteration, a tabu
\* queue and an iteration budget one above the bounds of Init
LongRunInit ==
    /\ graph = Star5
    /\ number_of_colors = 3
    /\ tabu_size = MaxTabuSize + 1
    /\ reps = 1
    /\ max_iterations = MaxIterations + 1
    /\ Entry

LongRunSpec == LongRunInit /\ [][Next]_vars

\* tabucol is sequential code: it keeps running until it returns or raises
FairSpec == Spec /\ WF_vars(Next)

UncolorableSpec == UncolorableInit /\ [][Next]_vars /\ WF_vars(Next)

\* ------------------------------------------------------------ properties
\* the graph has at least one edge (read as the code reads it: i < j)
HasEdge(g) == \E i, j \in Nodes(g) : i < j /\ g[i][j] > 0

\* no two adjacent nodes share a color
Proper(g, sol) == \A i, j \in Nodes(g) : (i < j /\ g[i][j] > 0) => sol[i] # sol[j]

\* C1: whenever tabucol returns a Solution, the returned Solution gives
\* every pair of adjacent nodes different colors.
C1_ValidityOnSuccess ==
    outcome = "Converged" => (result = solution /\ Proper(graph, result))

C1_Witness ==
    /\ outcome = "Converged"
    /\ HasEdge(graph)
    /\ iterations >= 2

\* C2: whenever tabucol reports failure, the iteration counter equals
\* max_iterations and the Solution held at that point has at least one
\* adjacent pair sharing a color.
C2_FailureWellFormed ==
    outcome = "Exhausted" =>
        (iterations = max_iterations /\ ~Proper(graph, solution))

\* C3: with one color and a graph that has an edge, tabucol ends by
\* returning the failure value (stated for otherwise valid parameters).
C3_SingleColorExhausted ==
    (/\ number_of_colors = 1
     /\ HasEdge(graph)
     /\ tabu_size >= 1 /\ reps >= 1 /\ max_iterations >= 1
     /\ pc = "done") => outcome = "Exhausted"

\* C4: for a graph without a proper k-coloring (k >= 2), such as the
\* 5-cycle with k = 2, every run ends in Exhausted and never in Converged
\* (for a retry budget and an iteration budget of at least 1).  Checked
\* over the calls of UncolorableSpec: graphs without a proper k-coloring.
C4_Pre ==
    /\ reps >= 1
    /\ max_iterations >= 1

C4_UncolorableExhausted ==
    /\ [](C4_Pre => outcome # "Converged")
    /\ (C4_Pre ~> outcome = "Exhausted")

C4_Witness ==
    /\ graph = Cycle5
    /\ number_of_colors = 2
    /\ outcome = "Exhausted"
    /\ iterations = max_iterations
    /\ iterations >= 2

\* C5: for a graph with no edges and k >= 1 (and an iteration budget of at
\* least 1), tabucol ends in Converged with the iteration counter 0: it
\* returns the initial Solution, samples no move and pushes nothing to the
\* tabu list.
C5_Pre ==
    /\ ~HasEdge(graph)
    /\ number_of_colors >= 1
    /\ max_iterations >= 1

C5_EmptyGraphConverges ==
    /\ [](C5_Pre => /\ iterations = 0
                    /\ tabu = << >>
                    /\ node = Unbound
                    /\ r = 0
                    /\ outcome \in {"running", "Converged"}
                    /\ (outcome = "Converged" => result = solution))
    /\ [][(C5_Pre /\ pc # "start") => solution' = solution]_vars
    /\ (C5_Pre ~> outcome = "Converged")

C5_Witness ==
    /\ ~HasEdge(graph)
    /\ NumNodes(graph) >= 2
    /\ number_of_colors >= 2
    /\ outcome = "Converged"
    /\ result[0] = result[1]
    /\ iterations = 0

\* C6: with max_iterations >= 1, reps >= 1 and k >= 2 every run ends in
\* Converged or Exhausted; the iteration counter grows by exactly 1 per
\* completed iteration and by nothing else, never exceeds max_iterations,
\* and no iteration samples more than reps attempts.
C6_Pre ==
    /\ max_iterations >= 1
    /\ reps >= 1
    /\ number_of_colors >= 2

C6_Termination ==
    /\ [](C6_Pre => /\ iterations <= max_iterations
                    /\ r <= reps
                    /\ (pc = "done" => outcome \in {"Converged", "Exhausted"}))
    /\ [][C6_Pre => IF pc = "push" /\ pc' = "loop"
                    THEN iterations' = iterations + 1
                    ELSE iterations' = iterations]_vars
    /\ (C6_Pre ~> pc = "done")

C6_Witness ==
    /\ C6_Pre
    /\ outcome = "Exhausted"
    /\ iterations = max_iterations
    /\ iterations >= 2
    /\ r = reps
    /\ reps >= 2

\* C7: for tabu_size >= 1 the tabu list never holds more than tabu_size
\* entries, also after the push of an iteration in which the aspiration
\* override removed an entry.
C7_TabuBound == tabu_size >= 1 => Len(tabu) <= tabu_size

C7_Witness ==
    /\ tabu_size >= 1
    /\ pc = "loop"
    /\ rule = "1a_tabu"
    /\ Len(tabu) = tabu_size

\* C8: for every conflict level z the values ever stored under key z form a
\* non-increasing sequence, whose last value is the current entry.
C8_AspirationMonotone ==
    /\ DOMAIN stored = DOMAIN aspiration_level
    /\ \A z \in DOMAIN stored :
        /\ aspiration_level[z] = stored[z][Len(stored[z])]
        /\ \A x \in 1..(Len(stored[z]) - 1) : stored[z][x+1] <= stored[z][x]

C8_Witness ==
    \E z \in DOMAIN stored : Len(stored[z]) >= 3

\* C10: with k < 1, tabu_size < 1, reps < 1 or max_iterations < 1 no search
\* iteration is started and neither a Solution nor the failure value is
\* returned.
ValidConfig ==
    /\ number_of_colors >= 1
    /\ tabu_size >= 1
    /\ reps >= 1
    /\ max_iterations >= 1

C10_ConfigurationRejected ==
    ~ValidConfig =>
        /\ iterations = 0
        /\ pc \notin {"sample", "push"}
        /\ outcome \notin {"Converged", "Exhausted"}

\* u and v are adjacent (the code reads graph[i][j] for i < j)
Adjacent(g, u, v) ==
    /\ u # v
    /\ IF u < v THEN g[u][v] > 0 ELSE g[v][u] > 0

\* the number of adjacent node pairs sharing a color, counted over the
\* two-element sets of nodes
Conflicts(g, sol) ==
    Cardinality({e \in SUBSET Nodes(g) :
        /\ Cardinality(e) = 2
        /\ \A u, v \in e : u # v => (Adjacent(g, u, v) /\ sol[u] = sol[v])})

\* the step that ends an iteration: push to the tabu list, new Solution
IterationStep == pc = "push" /\ pc' = "loop"

\* a step that samples one attempt
AttemptStep == pc = "sample" /\ r' = r + 1

\* the aspiration bound of the current conflict level before the attempt
BoundBefore ==
    IF conflict_count \in DOMAIN aspiration_level
    THEN aspiration_level[conflict_count] ELSE conflict_count - 1

\* C11: a move that is in the tabu list when it is sampled is applied to
\* the Solution only through the aspiration override; an attempt rejected
\* under rule 1b is never the move applied.
C11_TabuOnlyByAspiration ==
    [][IterationStep =>
        /\ rule # "1b"
        /\ (InTabu(tabu, <<node, new_color>>) => rule = "1a_tabu")]_vars

\* C12: when a tabu move (node, new_color) is accepted through the
\* aspiration override, the tabu list at the end of that iteration holds
\* no entry equal to (node, new_color).
C12_OverrideRemoves ==
    [][(IterationStep /\ rule = "1a_tabu") =>
        ~InTabu(tabu', <<node, new_color>>)]_vars

\* C13: an attempt accepted under rule 1a from level z has a conflict count
\* strictly below that of every transition applied from z before, and sets
\* the bound of z to its conflict count minus 1; no other step writes a
\* bound.
C13_Accept1a ==
    AttemptStep /\ new_conflicts' < conflict_count /\ new_conflicts' <= BoundBefore

C13_AspirationBestEver ==
    [][/\ C13_Accept1a =>
            /\ conflict_count \in DOMAIN applied_min =>
                   new_conflicts' < applied_min[conflict_count]
            /\ conflict_count \in DOMAIN aspiration_level'
            /\ aspiration_level'[conflict_count] = new_conflicts' - 1
            /\ pc' = "push"
       /\ \A z \in DOMAIN aspiration_level' :
            (z \notin DOMAIN aspiration_level
               \/ aspiration_level'[z] # aspiration_level[z])
            => (C13_Accept1a /\ z = conflict_count)
       /\ DOMAIN aspiration_level \subseteq DOMAIN aspiration_level']_vars

C13_Witness ==
    /\ pc = "push"
    /\ rule \in {"1a", "1a_tabu"}
    /\ conflict_count \in DOMAIN applied_min
    /\ new_conflicts < applied_min[conflict_count]
    /\ aspiration_level[conflict_count] = new_conflicts - 1

\* C14: the step that ends an iteration recolors one node, and (for
\* tabu_size >= 1) the entry it appends to the tabu list is that node with
\* its color in the pre-move Solution, so that recoloring the node back is
\* a tabu move.
C14_TabuEntryIsOldColor ==
    [][IterationStep =>
        \E v \in Nodes(graph) :
            /\ v = node
            /\ \A u \in Nodes(graph) : (solution'[u] # solution[u]) <=> (u = v)
            /\ tabu_size >= 1 =>
                /\ Len(tabu') >= 1
                /\ tabu'[Len(tabu')] = <<v, solution[v]>>
                /\ InTabu(tabu', <<v, solution[v]>>)]_vars

C14_Witness ==
    /\ pc = "loop"
    /\ iterations >= 2
    /\ rule = "2"
    /\ Len(tabu) = 2
    /\ tabu[2][1] = node
    /\ tabu[2][2] # solution[node]
    /\ tabu[1][1] # node

\* C15: for k >= 2 the step that ends an iteration changes the color of
\* exactly one node; that node touches a conflicting edge of the pre-move
\* Solution, its new color is in [0, k) and differs from its old color, and
\* the Solution stays a total mapping of the nodes to colors in [0, k).
C15_SingleNodeRecolor ==
    [][(IterationStep /\ number_of_colors >= 2) =>
        /\ DOMAIN solution' = Nodes(graph)
        /\ \A u \in Nodes(graph) : solution'[u] \in 0..(number_of_colors - 1)
        /\ \E v \in Nodes(graph) :
            /\ \E u \in Nodes(graph) :
                   Adjacent(graph, u, v) /\ solution[u] = solution[v]
            /\ solution'[v] # solution[v]
            /\ \A u \in Nodes(graph) \ {v} : solution'[u] = solution[u]]_vars

C15_Witness ==
    /\ pc = "loop"
    /\ iterations >= 1
    /\ number_of_colors = 3
    /\ solution[node] = 2
    /\ rule = "1c"

\* C16: an attempt accepted under rule 1a or 1c ends the sampling at once;
\* any other attempt is followed by a further attempt unless it is the
\* reps-th; the iteration's outcome is the Solution and move of the last
\* attempt sampled, whether or not it improves the conflict count.
C16_Accepted ==
    /\ new_conflicts' < conflict_count
    /\ (new_conflicts' <= BoundBefore \/ ~InTabu(tabu, <<node', new_color'>>))

C16_LastAttemptIsOutcome ==
    [][/\ AttemptStep =>
            /\ pc' = IF C16_Accepted \/ r' = reps THEN "push" ELSE "sample"
            /\ new_solution' = [solution EXCEPT ![node'] = new_color']
            /\ new_conflicts' = Conflicts(graph, new_solution')
       /\ IterationStep =>
            /\ solution' = [solution EXCEPT ![node] = new_color]
            /\ solution' = new_solution
            /\ rule \in {"1b", "2"} => r = reps
       /\ pc = "push" =>
            UNCHANGED <<node, new_color, new_solution, new_conflicts>>]_vars

C16_Witness ==
    /\ pc = "loop"
    /\ iterations >= 1
    /\ rule = "1b"
    /\ reps = 2
    /\ r = 2
    /\ solution = new_solution

\* C17: at the top of an iteration conflict_count is the number of adjacent
\* pairs sharing a color in the current Solution and move_candidates is the
\* set of nodes in such a pair; move_candidates is non-empty whenever
\* conflict_count > 0, so the node selection never draws from an empty list.
C17_ConflictEvaluation ==
    /\ (pc \in {"sample", "push"} \/ (pc = "return" /\ conflict_count = 0)) =>
        /\ conflict_count = Conflicts(graph, solution)
        /\ move_candidates =
             {v \in Nodes(graph) : \E u \in Nodes(graph) :
                 Adjacent(graph, u, v) /\ solution[u] = solution[v]}
        /\ conflict_count > 0 => move_candidates # {}
    /\ pc = "sample" => move_candidates # {}
    /\ outcome = "ValueError" => number_of_colors < 2

C17_Witness ==
    /\ pc = "sample"
    /\ iterations >= 1
    /\ conflict_count >= 2
    /\ Cardinality(move_candidates) >= 3
    /\ Cardinality(move_candidates) < NumNodes(graph)

C19_EarlyAcceptImproves ==
    [][IterationStep =>
        LET before == Conflicts(graph, solution)
            after == Conflicts(graph, solution')
        IN  /\ rule \in {"1a", "1a_tabu", "1c"} => after < before
            /\ after >= before => (r = reps /\ rule \in {"1b", "2"})]_vars

C19_Witness ==
    /\ pc = "loop"
    /\ iterations >= 1
    /\ rule = "2"
    /\ r = reps
    /\ conflict_count < Conflicts(graph, solution)

====
